---------------------------- MODULE Spec2Model ----------------------------
(***************************************************************************)
(* A model of main.py: the discovery loop (DiscoveryEngine.run), the quote *)
(* client (GammaClient), the Kelly sizing (RiskManager), the scorer        *)
(* (TribunalScorer), the persisted state (BotState / PersistenceManager)   *)
(* and the status endpoint (APIHandler.do_GET).                            *)
(*                                                                         *)
(* Numbers.  Python floats are modelled by exact rationals <<n, d>> with   *)
(* d > 0, and the values the program stores by fixed-point integers:       *)
(*   prices        ten-thousandths     (5000 is 0.50)                      *)
(*   money         cents               (200000 is 2000.00)                 *)
(*   roi           ten-thousandths     (round(x, 4))                       *)
(*   scores        hundredths          (round(raw_score, 2); 10000 is 100) *)
(*                                                                         *)
(* Specifications.  Spec is the loop, SpecStatus the loop with the thread  *)
(* of the API server, SpecLive the loop under the fairness of its steps.   *)
(* SpecSizing, SpecScore and SpecExec run calculate_bet_size, the tribunal *)
(* of the scan phase and the execute phase on inputs drawn from wider      *)
(* sets than the loop meets.  SpecLog is BotState.add_log called from both *)
(* threads; the steps of the loop in Spec do not record their add_log      *)
(* calls, as nothing in the loop reads the buffer.                         *)
(***************************************************************************)
EXTENDS Integers, Sequences, FiniteSets, TLC

VARIABLES
    pc,               \* position of DiscoveryEngine.run within its while loop
    tick,             \* number of completed iterations of the loop
    now,              \* the wall clock, in whole seconds
    r,                \* get_trump_price: the response of requests.get
    trump_price,      \* run: the local trump_price (hundredths)
    last_known_price, \* GammaClient.last_known_price (hundredths)
    watchlist,        \* BotState.watchlist
    positions,        \* BotState.positions
    i,                \* run: index of `for pos in state.positions`
    disk,             \* the content of bot_memory.json
    write_failed,     \* a save of the current iteration raised inside save()
    changed,          \* the current iteration has changed watchlist or positions
    snapshot,         \* the body last written by APIHandler.do_GET
    bet,              \* calculate_bet_size: arguments and result of a call
    logs,             \* BotState.logs
    logged,           \* add_log calls the main thread has begun
    api,              \* position of the thread of start_api_server
    history,          \* run: the local history of line 194
    result            \* run: the local result of line 195

vars == <<pc, tick, now, r, trump_price, last_known_price, watchlist,
          positions, i, disk, write_failed, changed, snapshot, bet,
          logs, logged, api, history, result>>

---------------------------------------------------------------------------
(* Bounds of the model *)

\* iterations of the while loop that are explored
MaxTicks == 2

\* trades in a generated history (the program generates 20)
NumTrades == 2

\* the wall clock at construction, in seconds
StartTime == 100

\* add_log calls of the main thread that are explored
MaxLogs == 102

(* Program constants *)

CAP == 8
InitialPrice == 5000
MinOddsPrice == 100
Bankroll == 10000
KELLY_NUM == 1
KELLY_DEN == 2
MAX_PCT_NUM == 1
MAX_PCT_DEN == 5
MIN_BET == 10
SleepSeconds == 2
LOG_CAP == 100

TrumpMarket == "Trump 2024 Election Winner"

---------------------------------------------------------------------------
(* Exact rational arithmetic, standing for the float arithmetic *)

Abs(x) == IF x < 0 THEN -x ELSE x

RECURSIVE GCD(_, _)
GCD(a, b) == IF b = 0 THEN a ELSE GCD(b, a % b)

\* the rational n/d in lowest terms with a positive denominator (d # 0)
Rat(n, d) ==
    LET g == GCD(Abs(n), Abs(d))
        s == IF d < 0 THEN -1 ELSE 1
    IN  <<(s * n) \div g, (s * d) \div g>>

RInt(n) == <<n, 1>>

RLcm(x, y) == (x[2] \div GCD(x[2], y[2])) * y[2]

RSub(x, y) ==
    LET l == RLcm(x, y)
    IN  Rat(x[1] * (l \div x[2]) - y[1] * (l \div y[2]), l)

RMul(x, y) ==
    LET a == Rat(x[1], y[2])
        b == Rat(y[1], x[2])
    IN  Rat(a[1] * b[1], a[2] * b[2])

\* x / y for y # 0
RDiv(x, y) == RMul(x, Rat(y[2], y[1]))

RLess(x, y) ==
    LET l == RLcm(x, y)
    IN  x[1] * (l \div x[2]) < y[1] * (l \div y[2])

RLeq(x, y) == ~RLess(y, x)

\* Python's min(x, y) and max(x, y): the first argument unless the other is
\* strictly smaller (larger)
RMin(x, y) == IF RLess(y, x) THEN y ELSE x
RMax(x, y) == IF RLess(x, y) THEN y ELSE x

\* round(x, k) as an integer number of 10^-k units, scale = 10^k: the
\* nearest integer to x * scale, a tie going to the even one
RoundTo(x, scale) ==
    LET v  == RMul(x, RInt(scale))
        fl == v[1] \div v[2]
        rm == v[1] % v[2]
    IN  IF 2 * rm > v[2] THEN fl + 1
        ELSE IF 2 * rm < v[2] THEN fl
        ELSE IF fl % 2 = 0 THEN fl ELSE fl + 1

---------------------------------------------------------------------------
(* RiskManager *)

KELLY_FRACTION == Rat(KELLY_NUM, KELLY_DEN)
MAX_BANKROLL_PCT == Rat(MAX_PCT_NUM, MAX_PCT_DEN)

\* calculate_bet_size without the cap of line 130
calculate_bet_size_uncapped(bankroll, win_prob, odds) ==
    LET b == RSub(odds, RInt(1))
    IN  IF RLeq(b, RInt(0)) THEN RInt(0)
        ELSE
          LET p == win_prob
              q == RSub(RInt(1), p)
              kelly_pct == RDiv(RSub(RMul(b, p), q), b)
              safe_pct  == RMul(kelly_pct, KELLY_FRACTION)
          IN  RMax(RInt(0), RMul(bankroll, safe_pct))

\* calculate_bet_size with p and q exchanged in line 128
calculate_bet_size_swapped(bankroll, win_prob, odds) ==
    LET b == RSub(odds, RInt(1))
    IN  IF RLeq(b, RInt(0)) THEN RInt(0)
        ELSE
          LET p == win_prob
              q == RSub(RInt(1), p)
              kelly_pct == RDiv(RSub(RMul(b, q), p), b)
              safe_pct  == RMul(kelly_pct, KELLY_FRACTION)
              final_pct == RMin(safe_pct, MAX_BANKROLL_PCT)
          IN  RMax(RInt(0), RMul(bankroll, final_pct))

\* RiskManager.calculate_bet_size(bankroll, win_prob, odds), all rationals
calculate_bet_size(bankroll, win_prob, odds) ==
    LET b == RSub(odds, RInt(1))
    IN  IF RLeq(b, RInt(0)) THEN RInt(0)
        ELSE
          LET p == win_prob
              q == RSub(RInt(1), p)
              kelly_pct == RDiv(RSub(RMul(b, p), q), b)
              safe_pct  == RMul(kelly_pct, KELLY_FRACTION)
              final_pct == RMin(safe_pct, MAX_BANKROLL_PCT)
          IN  RMax(RInt(0), RMul(bankroll, final_pct))

---------------------------------------------------------------------------
(* TribunalScorer and ProfileGenerator *)

(* A trade of a history: entry_price in hundredths, exit_price in          *)
(* ten-thousandths (an entry times a factor in hundredths), size in whole  *)
(* currency units.                                                         *)

WASH_LIMIT == 500
MAX_SORTINO == 3
DOWNSIDE_FLOOR_PCT == 1
SCORE_SPAN == 60
SCORE_BASE == 40
APPROVE_ABOVE == 70

RAdd(x, y) ==
    LET l == RLcm(x, y)
    IN  Rat(x[1] * (l \div x[2]) + y[1] * (l \div y[2]), l)

RECURSIVE RSum(_)
RSum(s) == IF s = <<>> THEN RInt(0) ELSE RAdd(Head(s), RSum(Tail(s)))

RECURSIVE ISum(_)
ISum(s) == IF s = <<>> THEN 0 ELSE Head(s) + ISum(Tail(s))

IsNegative(x) == x[1] < 0

\* a/b <= c/d for a, c >= 0 and b, d > 0, by continued fractions: no
\* product is formed, so nothing overflows
RECURSIVE FracLeq(_, _, _, _)
FracLeq(a, b, c, d) ==
    LET qa == a \div b
        qc == c \div d
        ra == a % b
        rc == c % d
    IN  IF qa # qc THEN qa < qc
        ELSE IF ra = 0 THEN TRUE
        ELSE IF rc = 0 THEN FALSE
        ELSE FracLeq(d, rc, b, ra)

\* the largest t in lo..hi with t^2 <= c * x for a rational x >= 0 (lo has it)
RECURSIVE SqrtSearch(_, _, _, _)
SqrtSearch(x, c, lo, hi) ==
    IF lo = hi THEN lo
    ELSE LET mid == (lo + hi + 1) \div 2
         IN  IF FracLeq(mid * mid, x[1], c, x[2])
             THEN SqrtSearch(x, c, mid, hi)
             ELSE SqrtSearch(x, c, lo, mid - 1)

\* the largest t whose square is a 32-bit integer
SqrtRange == 2 * 23170

\* floor(sqrt(c * x)) for a rational x >= 0; a value beyond SqrtRange is
\* outside the arithmetic of the model and stops the evaluation
FloorSqrt(x, c) ==
    IF x[1] = 0 THEN 0
    ELSE LET t == SqrtSearch(x, c, 0, SqrtRange)
         IN  IF t = SqrtRange THEN CHOOSE n \in {} : TRUE ELSE t

\* df['pnl'] of one trade, in ten-thousandths of a currency unit
TradePnl(t) == (t.exit_price - 100 * t.entry_price) * t.size

\* df['roi'] of one trade
TradeRoi(t) == Rat(t.exit_price - 100 * t.entry_price, 100 * t.entry_price)

\* Series.std(): the sample standard deviation, squared; a series of one
\* value has none (NaN), which is returned as <<-1, 1>>
SampleVar(xs) ==
    LET k == Len(xs)
        m == RDiv(RSum(xs), RInt(k))
        d == [j \in 1..k |-> RMul(RSub(xs[j], m), RSub(xs[j], m))]
    IN  IF k < 2 THEN <<-1, 1>> ELSE RDiv(RSum(d), RInt(k - 1))

\* sortino of line 146 as a sign and a square: <<sign, sortino^2>>
Sortino(roi) ==
    LET n       == Len(roi)
        mean    == RDiv(RSum(roi), RInt(n))
        neg_ret == SelectSeq(roi, IsNegative)
        \* downside^2; the floor 0.01 when there is no negative return
        down2   == IF Len(neg_ret) > 0 THEN SampleVar(neg_ret)
                   ELSE Rat(DOWNSIDE_FLOOR_PCT * DOWNSIDE_FLOOR_PCT, 10000)
        sign    == IF mean[1] > 0 THEN 1 ELSE IF mean[1] < 0 THEN -1 ELSE 0
    IN  \* `if downside > 0` is false for 0 and for NaN
        IF down2[1] <= 0 THEN <<0, RInt(0)>>
        ELSE <<sign, RDiv(RMul(mean, mean), down2)>>

\* round(raw_score, 2) in hundredths, raw_score = min(sortino, 3) / 3 * 60 + 40
RawScore100(so) ==
    LET cap2 == RInt(MAX_SORTINO * MAX_SORTINO)
        unit == (100 * SCORE_SPAN) \div MAX_SORTINO
        \* floor(2 * unit * |sortino|), then rounded to the nearest
        t    == FloorSqrt(so[2], 4 * unit * unit)
        mag  == (t + 1) \div 2
    IN  IF so[1] > 0 /\ RLeq(cap2, so[2]) THEN 100 * (SCORE_SPAN + SCORE_BASE)
        ELSE 100 * SCORE_BASE + so[1] * mag

\* raw_score > 70, on the unrounded raw_score
RawAbove(so, limit) ==
    LET need == Rat((limit - SCORE_BASE) * MAX_SORTINO, SCORE_SPAN)
    IN  /\ so[1] > 0
        /\ \/ RLeq(RInt(MAX_SORTINO * MAX_SORTINO), so[2])
           \/ RLess(RMul(need, need), so[2])

\* calculate_score without the test of line 143
calculate_score_unwashed(trade_history) ==
    IF trade_history = <<>> THEN [score |-> 0, status |-> "NO_DATA"]
    ELSE
      LET n   == Len(trade_history)
          roi == [j \in 1..n |-> TradeRoi(trade_history[j])]
          so  == Sortino(roi)
      IN  [score  |-> RawScore100(so),
           status |-> IF RawAbove(so, APPROVE_ABOVE) THEN "APPROVED"
                      ELSE "REJECTED"]

\* TribunalScorer.calculate_score(trade_history); score in hundredths
calculate_score(trade_history) ==
    IF trade_history = <<>> THEN [score |-> 0, status |-> "NO_DATA"]
    ELSE
      LET n   == Len(trade_history)
          pnl == [j \in 1..n |-> TradePnl(trade_history[j])]
          roi == [j \in 1..n |-> TradeRoi(trade_history[j])]
          total_vol == ISum([j \in 1..n |-> trade_history[j].size])
          total_pnl == ISum(pnl)
          wash_ratio == Rat(total_vol * 10000, Abs(total_pnl) + 10000)
          so  == Sortino(roi)
      IN  IF RLess(RInt(WASH_LIMIT), wash_ratio)
          THEN [score |-> 0, status |-> "REJECTED_WASH_TRADING"]
          ELSE [score  |-> RawScore100(so),
                status |-> IF RawAbove(so, APPROVE_ABOVE) THEN "APPROVED"
                           ELSE "REJECTED"]

\* the values random.uniform draws in ProfileGenerator.generate, sampled
Entries == {50}
Sizes == {100, 1000}
Factors(mode) ==
    CASE mode = "GOD"  -> {110, 180}
      [] mode = "REKT" -> {10, 90}
      [] mode = "MID"  -> {80, 102, 120}

Modes == {"GOD", "REKT", "MID"}

TradesOf(mode) ==
    {[entry_price |-> e, exit_price |-> e * f, size |-> s] :
        e \in Entries, f \in Factors(mode), s \in Sizes}

\* ProfileGenerator.generate(): the histories it can return
generate == UNION {[1..NumTrades -> TradesOf(mode)] : mode \in Modes}

\* what one scan can get from the tribunal
ScanResults == {calculate_score(h) : h \in generate}

\* random.randint(1000,9999) twice, sampled
Addresses == {"0x1000...1000", "0x9999...9999"}

---------------------------------------------------------------------------
(* GammaClient *)

\* a body: text that r.json() cannot parse, or the parsed list of events
Invalid == [json |-> FALSE, data |-> <<>>]
Json(data) == [json |-> TRUE, data |-> data]

NoResponse == [raised |-> FALSE, status_code |-> 0, body |-> Invalid]

\* the outcomePrices of a market: absent, text that json.loads cannot
\* parse, or the parsed list of strings
Missing == [given |-> FALSE, json |-> FALSE, list |-> <<>>]
NotJson == [given |-> TRUE, json |-> FALSE, list |-> <<>>]
Prices(list) == [given |-> TRUE, json |-> TRUE, list |-> list]
DefaultPrices == Prices(<<"0.5", "0.5">>)

\* a price, or the exception raised in place of one
Value(v) == [raised |-> FALSE, value |-> v]
Raised == [raised |-> TRUE, value |-> 0]

\* the prices the feed is taken to quote, as the strings of outcomePrices
PriceStrings == {"0", "0.50", "0.80"}

\* float(s): the price in ten-thousandths, or ValueError
float(s) ==
    CASE s = "0"    -> Value(0)
      [] s = "0.5"  -> Value(5000)
      [] s = "0.50" -> Value(5000)
      [] s = "0.80" -> Value(8000)
      [] OTHER      -> Raised

Quotes == {float(s).value : s \in PriceStrings}

Market(title, prices) == [groupItemTitle |-> title, outcomePrices |-> prices]

\* the bodies of a response: not JSON, an empty list, or a list of one
\* event with its markets
Harris == Market("Kamala Harris", Prices(<<"0.50", "0.50">>))
Trump(prices) == Market("Donald Trump", prices)

Bodies ==
    {Invalid, Json(<<>>)}
    \cup {Json(<<[markets |-> ms]>>) :
             ms \in {<<>>, <<Harris>>, <<Trump(Missing)>>, <<Trump(NotJson)>>,
                     <<Trump(Prices(<<>>))>>,
                     <<Trump(Prices(<<"n/a", "n/a">>))>>}}
    \cup {Json(<<[markets |-> <<Harris, Trump(Prices(<<s, "0.50">>))>>]>>) :
             s \in PriceStrings}

\* what requests.get can do: raise (a timeout, no connection), or return
Responses ==
    {[raised |-> TRUE, status_code |-> 0, body |-> Invalid]}
    \cup {[raised |-> FALSE, status_code |-> 500, body |-> Invalid]}
    \cup {[raised |-> FALSE, status_code |-> 200, body |-> b] : b \in Bodies}

\* the index of the first market whose groupItemTitle holds "Donald Trump",
\* 0 when there is none
RECURSIVE FirstTrump(_, _)
FirstTrump(markets, k) ==
    IF k > Len(markets) THEN 0
    ELSE IF markets[k].groupItemTitle = "Donald Trump" THEN k
    ELSE FirstTrump(markets, k + 1)

\* lines 82-83 for the market m: float(json.loads(outcomePrices)[0]), or
\* the exception they raise
FetchedPrice(m) ==
    LET outcomes == IF m.outcomePrices.given THEN m.outcomePrices
                    ELSE DefaultPrices
    IN  IF ~outcomes.json THEN Raised
        ELSE IF outcomes.list = <<>> THEN Raised
        ELSE float(outcomes.list[1])

\* GammaClient.get_trump_price on the response resp, with last as
\* self.last_known_price: the value returned and the new last_known_price
get_trump_price(resp, last) ==
    LET keep == [ret |-> last, last_known_price |-> last]
    IN  IF resp.raised THEN keep
        ELSE IF resp.status_code # 200 THEN keep
        ELSE IF ~resp.body.json THEN keep
        ELSE IF resp.body.data = <<>> THEN keep
        ELSE
          LET markets == resp.body.data[1].markets
              k == FirstTrump(markets, 1)
          IN  IF k = 0 THEN keep
              ELSE LET price == FetchedPrice(markets[k])
                   IN  IF price.raised THEN keep
                       ELSE [ret |-> price.value,
                             last_known_price |-> price.value]

---------------------------------------------------------------------------
(* BotState and PersistenceManager *)

\* bot_memory.json: absent, cut short by a failed write, or written
NoFile == [file |-> "absent", watchlist |-> <<>>, positions |-> <<>>]
Truncated == [file |-> "truncated", watchlist |-> <<>>, positions |-> <<>>]

\* BotState.save_state: what json.dump writes
Memory(wl, ps) == [file |-> "written", watchlist |-> wl, positions |-> ps]

Entry(address, score) == [address |-> address, scoreA |-> score, pnl |-> 0]

\* the position appended at lines 217-228
NewPosition(whale, price, size, clock) ==
    [id           |-> clock,
     market       |-> TrumpMarket,
     whale        |-> whale.address,
     side         |-> "YES",
     entryPrice   |-> price,
     currentPrice |-> price,
     size         |-> RoundTo(size, 100),
     pnl          |-> 0,
     roi          |-> 0,
     timestamp    |-> clock * 1000]

\* a memory file left by an earlier run: a full watchlist and one position,
\* saved as it was opened
SavedWatchlist ==
    <<Entry("0x1000...1000", 10000), Entry("0x9999...9999", 8000),
      Entry("0x1000...1000", 8000),  Entry("0x9999...9999", 10000),
      Entry("0x1000...1000", 10000), Entry("0x9999...9999", 10000),
      Entry("0x1000...1000", 8000),  Entry("0x9999...9999", 8000)>>

SavedPositions ==
    <<NewPosition(SavedWatchlist[1], 3000, RInt(2000), StartTime - 10)>>

\* PersistenceManager.load() at construction: the file, or None
Loaded == {NoFile, Memory(SavedWatchlist, SavedPositions)}

\* the entry of line 57 without its timestamp; the message is the thread
\* that logs and the number of its call, standing for the text
LogEntry(thread, n, category) ==
    [message |-> <<thread, n>>, category |-> category]

\* lines 46 and 48: what BotState() logs for the file d
BootEntry(d) ==
    IF d.file = "written" THEN LogEntry("recovered", 0, "SYSTEM")
    ELSE LogEntry("fresh", 0, "SYSTEM")

\* line 171: what DiscoveryEngine() logs, the first call of the main thread
EngineEntry == LogEntry("main", 1, "SYSTEM")

\* the entry of the n-th call of the main thread: line 171, then the calls
\* of run (lines 193, 198, 203, 215)
MainEntry(n) == IF n = 1 THEN EngineEntry ELSE LogEntry("main", n, "SCANNER")

\* line 112: the one call of the thread of the API server
ApiEntry == LogEntry("api", 1, "SYSTEM")

\* line 58, the test
LogFull(buf) == Len(buf) > LOG_CAP

\* line 58 with pop() for pop(0)
LogPop_newest(buf) == SubSeq(buf, 1, Len(buf) - 1)

\* line 58, pop(0)
LogPop(buf) == Tail(buf)

---------------------------------------------------------------------------
(* DiscoveryEngine.run *)

\* line 182 left out
MarkPrice_skipped(pos, price) == pos

\* line 182 writing entryPrice for currentPrice
MarkPrice_entry(pos, price) == [pos EXCEPT !.entryPrice = price]

\* lines 182-188 on one position, one assignment at a time
MarkPrice(pos, price) == [pos EXCEPT !.currentPrice = price]

\* line 187 adding to the pnl in place of assigning it
MarkPnl_added(pos, price) ==
    LET size == Rat(pos.size, 100)
        shares == RDiv(size, Rat(pos.entryPrice, 10000))
        current_value == RMul(shares, Rat(price, 10000))
    IN  [pos EXCEPT
           !.pnl = pos.pnl + RoundTo(RSub(current_value, size), 100)]

\* lines 185-187; pos.entryPrice # 0
MarkPnl(pos, price) ==
    LET size == Rat(pos.size, 100)
        shares == RDiv(size, Rat(pos.entryPrice, 10000))
        current_value == RMul(shares, Rat(price, 10000))
    IN  [pos EXCEPT !.pnl = RoundTo(RSub(current_value, size), 100)]

\* line 188; pos.entryPrice # 0
MarkRoi(pos, price) ==
    LET entry == Rat(pos.entryPrice, 10000)
    IN  [pos EXCEPT
           !.roi = RoundTo(RDiv(RSub(Rat(price, 10000), entry), entry), 10000)]

\* the body of the loop of lines 179-188 on one position, as far as it
\* runs: line 185 raises when entryPrice is 0
MarkPosition(pos, price) ==
    IF pos.market # TrumpMarket THEN pos
    ELSE IF pos.entryPrice = 0 THEN MarkPrice(pos, price)
    ELSE MarkRoi(MarkPnl(MarkPrice(pos, price), price), price)

\* line 72
Request ==
    /\ pc = "fetch"
    /\ r' \in Responses
    /\ pc' = "parse"
    /\ UNCHANGED <<tick, now, trump_price, last_known_price, watchlist,
                   positions, i, disk, write_failed, changed, snapshot, bet>>
    /\ UNCHANGED <<logs, logged, api, history, result>>

\* lines 73-88 and the assignment of line 176
Parse ==
    /\ pc = "parse"
    /\ LET got == get_trump_price(r, last_known_price)
       IN  /\ trump_price' = got.ret
           /\ last_known_price' = got.last_known_price
    /\ i' = 1
    /\ pc' = "mark"
    /\ UNCHANGED <<tick, now, r, watchlist, positions, disk, write_failed,
                   changed, snapshot, bet>>
    /\ UNCHANGED <<logs, logged, api, history, result>>

\* lines 179-182: the next position of the loop, its currentPrice; the
\* response of get_trump_price is gone by now
Mark ==
    /\ pc = "mark"
    /\ IF i > Len(positions)
       THEN /\ pc' = "scan"
            /\ UNCHANGED <<positions, i>>
       ELSE IF positions[i].market = TrumpMarket
       THEN /\ positions' =
                 [positions EXCEPT ![i] = MarkPrice(positions[i], trump_price)]
            /\ pc' = "mark_pnl"
            /\ UNCHANGED i
       ELSE /\ i' = i + 1
            /\ UNCHANGED <<pc, positions>>
    /\ r' = NoResponse
    /\ changed' = (changed \/ positions' # positions)
    /\ UNCHANGED <<tick, now, trump_price, last_known_price, watchlist,
                   disk, write_failed, snapshot, bet>>
    /\ UNCHANGED <<logs, logged, api, history, result>>

\* lines 185-187: ZeroDivisionError at line 185 when entryPrice is 0; run
\* has no handler, the exception ends it
MarkPnlStep ==
    /\ pc = "mark_pnl"
    /\ IF positions[i].entryPrice = 0
       THEN /\ pc' = "crashed"
            /\ UNCHANGED positions
       ELSE /\ positions' =
                 [positions EXCEPT ![i] = MarkPnl(positions[i], trump_price)]
            /\ pc' = "mark_roi"
    /\ changed' = (changed \/ positions' # positions)
    /\ UNCHANGED <<tick, now, r, trump_price, last_known_price, watchlist,
                   i, disk, write_failed, snapshot, bet>>
    /\ UNCHANGED <<logs, logged, api, history, result>>

\* line 188
MarkRoiStep ==
    /\ pc = "mark_roi"
    /\ positions' = [positions EXCEPT ![i] = MarkRoi(positions[i], trump_price)]
    /\ i' = i + 1
    /\ pc' = "mark"
    /\ changed' = (changed \/ positions' # positions)
    /\ UNCHANGED <<tick, now, r, trump_price, last_known_price, watchlist,
                   disk, write_failed, snapshot, bet>>
    /\ UNCHANGED <<logs, logged, api, history, result>>

\* line 199
Approve(wl, candidate, score) == Append(wl, Entry(candidate, score))

\* line 200 with the bound off by one
Evict_late(wl) == IF Len(wl) > CAP + 1 THEN Tail(wl) ELSE wl

\* line 200 with pop() for pop(0)
Evict_newest(wl) == IF Len(wl) > CAP THEN SubSeq(wl, 1, Len(wl) - 1) ELSE wl

\* line 200
Evict(wl) == IF Len(wl) > CAP THEN Tail(wl) ELSE wl

\* lines 196-199 and 203 for the result res of the tribunal
Verdict(candidate, res) ==
    IF res.status = "APPROVED"
    THEN /\ watchlist' = Approve(watchlist, candidate, res.score)
         /\ pc' = "scan_pop"
    ELSE /\ pc' = "exec"
         /\ UNCHANGED watchlist

\* lines 191-199 and 203: the gate, the tribunal, the append
Scan ==
    /\ pc = "scan"
    /\ \/ /\ pc' = "exec"
          /\ UNCHANGED watchlist
       \/ \E candidate \in Addresses, res \in ScanResults :
            Verdict(candidate, res)
    /\ changed' = (changed \/ watchlist' # watchlist)
    /\ UNCHANGED <<tick, now, r, trump_price, last_known_price, positions,
                   i, disk, write_failed, snapshot, bet>>
    /\ UNCHANGED <<logs, logged, api, history, result>>

\* line 200
ScanPop ==
    /\ pc = "scan_pop"
    /\ watchlist' = Evict(watchlist)
    /\ pc' = "scan_save"
    /\ changed' = (changed \/ watchlist' # watchlist)
    /\ UNCHANGED <<tick, now, r, trump_price, last_known_price, positions,
                   i, disk, write_failed, snapshot, bet>>
    /\ UNCHANGED <<logs, logged, api, history, result>>

\* BotState.save_state through PersistenceManager.save: the file is
\* written, or open() raises (the file is as it was), or json.dump raises
\* after open() has truncated it; save() catches both
Save(next) ==
    /\ \/ /\ disk' = Memory(watchlist, positions)
          /\ UNCHANGED write_failed
       \/ /\ disk' \in {disk, Truncated}
          /\ write_failed' = TRUE
    /\ pc' = next
    /\ UNCHANGED <<tick, now, r, trump_price, last_known_price, watchlist,
                   positions, i, changed, snapshot, bet>>
    /\ UNCHANGED <<logs, logged, api, history, result>>

\* line 201
ScanSave == pc = "scan_save" /\ Save("exec")

\* line 209 with the floor 0.01 for the price
real_odds_floor(price) == Rat(10000, MinOddsPrice)

\* line 209
real_odds(price) ==
    Rat(10000, IF MinOddsPrice > price THEN MinOddsPrice ELSE price)

\* lines 210-212 for the chosen whale
BetSize(whale, price) ==
    calculate_bet_size(RInt(Bankroll), Rat(whale.scoreA, 10000),
                       real_odds(price))

\* line 214 with 0 for 10
Worth_any(size) == RLess(RInt(0), size)

\* line 214
Worth(size) == RLess(RInt(MIN_BET), size)

\* lines 206-228: the gate, the choice of a whale, the sizing, the append
Exec ==
    /\ pc = "exec"
    /\ \/ /\ pc' = "sleep"
          /\ UNCHANGED positions
       \/ /\ Len(watchlist) > 0
          /\ \E w \in 1..Len(watchlist) :
               LET whale == watchlist[w]
                   size  == BetSize(whale, trump_price)
               IN  IF Worth(size)
                   THEN /\ positions' =
                             Append(positions,
                                    NewPosition(whale, trump_price, size, now))
                        /\ pc' = "exec_save"
                   ELSE /\ pc' = "sleep"
                        /\ UNCHANGED positions
    /\ changed' = (changed \/ positions' # positions)
    /\ UNCHANGED <<tick, now, r, trump_price, last_known_price, watchlist,
                   i, disk, write_failed, snapshot, bet>>
    /\ UNCHANGED <<logs, logged, api, history, result>>

\* line 229
ExecSave == pc = "exec_save" /\ Save("sleep")

\* line 231 sleeping less than a second
Wake_at_once(clock) == clock

\* line 231: the wall clock when time.sleep(2) returns; the clock moves
\* on by the sleeps alone
Wake(clock) == clock + SleepSeconds

\* line 231 and the next iteration of `while True`
Sleep ==
    /\ pc = "sleep"
    /\ tick + 1 < MaxTicks
    /\ tick' = tick + 1
    /\ now' = Wake(now)
    /\ write_failed' = FALSE
    /\ changed' = FALSE
    /\ pc' = "fetch"
    /\ UNCHANGED <<r, trump_price, last_known_price, watchlist, positions,
                   i, disk, snapshot, bet>>
    /\ UNCHANGED <<logs, logged, api, history, result>>

---------------------------------------------------------------------------
(* APIHandler *)

\* no request served yet
NoBody == <<>>

\* do_GET for /status, lines 98-103: the lists as they are when
\* json.dumps runs, which the loop does not interrupt
DoGet ==
    /\ pc # "crashed"
    /\ snapshot' = <<[watchlist |-> watchlist, positions |-> positions]>>
    /\ UNCHANGED <<pc, tick, now, r, trump_price, last_known_price,
                   watchlist, positions, i, disk, write_failed, changed,
                   bet>>
    /\ UNCHANGED <<logs, logged, api, history, result>>

---------------------------------------------------------------------------
(* The program: BotState() and DiscoveryEngine() at construction, then run *)

NoBet == <<>>

\* no tribunal held yet
NoResult == [score |-> 0, status |-> ""]

Init ==
    /\ pc = "fetch"
    /\ tick = 0
    /\ now = StartTime
    /\ r = NoResponse
    /\ trump_price = InitialPrice
    /\ last_known_price = InitialPrice
    /\ disk \in Loaded
    /\ watchlist = disk.watchlist
    /\ positions = disk.positions
    /\ i = 1
    /\ write_failed = FALSE
    /\ changed = FALSE
    /\ snapshot = NoBody
    /\ bet = NoBet
    /\ logs = <<BootEntry(disk), EngineEntry>>
    /\ logged = 1
    /\ api = "api_append"
    /\ history = <<>>
    /\ result = NoResult

Next ==
    \/ Request
    \/ Parse
    \/ Mark
    \/ MarkPnlStep
    \/ MarkRoiStep
    \/ Scan
    \/ ScanPop
    \/ ScanSave
    \/ Exec
    \/ ExecSave
    \/ Sleep

Spec == Init /\ [][Next]_vars

\* the loop as the main thread runs it: a step that can be taken is taken
\* (requests.get returns or times out, time.sleep returns, nothing else
\* waits).  For the two steps of arithmetic the condition is stated on pc:
\* the loop does not stay at the step, which is the weak fairness of a
\* step that can be taken exactly where the loop is at it and leaves it.
SpecLive ==
    /\ Init
    /\ [][Next]_vars
    /\ WF_vars(Request)
    /\ WF_vars(Parse)
    /\ WF_vars(Mark)
    /\ []<>(pc # "mark_pnl")
    /\ []<>(pc # "mark_roi")
    /\ WF_vars(Scan)
    /\ WF_vars(ScanPop)
    /\ WF_vars(ScanSave)
    /\ WF_vars(Exec)
    /\ WF_vars(ExecSave)
    /\ WF_vars(Sleep)

\* the loop and the thread of the API server
NextStatus == Next \/ DoGet

SpecStatus == Init /\ [][NextStatus]_vars

---------------------------------------------------------------------------
(* RiskManager.calculate_bet_size on its own: the arguments are drawn at   *)
(* the start, the call computes the result.                                *)

SizingBankrolls == {1, 10000, 25000}
SizingProbs == {Rat(k, 10) : k \in 0..10}
SizingOdds == {RInt(0), Rat(1, 2), RInt(1), Rat(5, 4), RInt(2), Rat(10, 3),
               RInt(100)}

SizingInit ==
    /\ pc = "size_call"
    /\ tick = 0
    /\ now = StartTime
    /\ r = NoResponse
    /\ trump_price = InitialPrice
    /\ last_known_price = InitialPrice
    /\ disk = NoFile
    /\ watchlist = <<>>
    /\ positions = <<>>
    /\ i = 1
    /\ write_failed = FALSE
    /\ changed = FALSE
    /\ snapshot = NoBody
    /\ logs = <<BootEntry(disk)>>
    /\ logged = 0
    /\ api = "api_append"
    /\ history = <<>>
    /\ result = NoResult
    /\ \E br \in SizingBankrolls, p \in SizingProbs, o \in SizingOdds :
         bet = <<[bankroll |-> br, win_prob |-> p, odds |-> o,
                  size |-> RInt(0)]>>

SizeCall ==
    /\ pc = "size_call"
    /\ bet' = <<[bet[1] EXCEPT
                   !.size = calculate_bet_size(RInt(bet[1].bankroll),
                                               bet[1].win_prob, bet[1].odds)]>>
    /\ pc' = "size_done"
    /\ UNCHANGED <<tick, now, r, trump_price, last_known_price, watchlist,
                   positions, i, disk, write_failed, changed, snapshot>>
    /\ UNCHANGED <<logs, logged, api, history, result>>

NextSizing == SizeCall

SpecSizing == SizingInit /\ [][NextSizing]_vars

---------------------------------------------------------------------------
(* The execute phase of run on its own: the loop is at line 206 with a     *)
(* quote and a watchlist drawn from wider samples than the loop above      *)
(* meets, and nothing opened yet.                                          *)

\* quotes, in ten-thousandths: the feed can bring any number
ExecPrices == {0, 5000, 7001, 7501, 7999, 8000, 10000, 12500}

\* scoreA of a whale, in hundredths: the scores above 70 that the tribunal
\* can give, sampled
ExecScores == {7000, 7007, 7506, 8000, 10000}

ExecWatchlists ==
    {<<>>} \cup {<<Entry(a, sc)>> : a \in Addresses, sc \in ExecScores}

ExecInit ==
    /\ pc = "exec"
    /\ tick = 0
    /\ now = StartTime
    /\ r = NoResponse
    /\ trump_price \in ExecPrices
    /\ last_known_price = trump_price
    /\ watchlist \in ExecWatchlists
    /\ positions = <<>>
    /\ disk = IF watchlist = <<>> THEN NoFile ELSE Memory(watchlist, <<>>)
    /\ i = 1
    /\ write_failed = FALSE
    /\ changed = FALSE
    /\ snapshot = NoBody
    /\ bet = NoBet
    /\ logs = <<BootEntry(disk), EngineEntry>>
    /\ logged = 1
    /\ api = "api_append"
    /\ history = <<>>
    /\ result = NoResult

NextExec ==
    \/ Exec
    \/ ExecSave

SpecExec == ExecInit /\ [][NextExec]_vars

---------------------------------------------------------------------------
(* The tribunal of the scan phase on its own: lines 195-203 on a history   *)
(* drawn from the histories of the generator and from histories it does    *)
(* not sample.                                                             *)

Trade(entry, exit, size) ==
    [entry_price |-> entry, exit_price |-> exit, size |-> size]

\* ten flat trades of size 1000 at 0.5
FlatHistory == [j \in 1..10 |-> Trade(50, 5000, 1000)]

\* two losing trades, of 10% and of 20%, as the mode REKT can draw them
LosingHistory == <<Trade(50, 4500, 100), Trade(50, 4000, 100)>>

\* a single losing trade
OneLoss == <<Trade(50, 4500, 1000)>>

ScoreHistories == generate \cup {<<>>, FlatHistory, LosingHistory, OneLoss}

ScoreInit ==
    /\ pc = "score_call"
    /\ tick = 0
    /\ now = StartTime
    /\ r = NoResponse
    /\ trump_price = InitialPrice
    /\ last_known_price = InitialPrice
    /\ disk \in Loaded
    /\ watchlist = disk.watchlist
    /\ positions = disk.positions
    /\ i = 1
    /\ write_failed = FALSE
    /\ changed = FALSE
    /\ snapshot = NoBody
    /\ bet = NoBet
    /\ logs = <<BootEntry(disk), EngineEntry>>
    /\ logged = 1
    /\ api = "api_append"
    /\ history \in ScoreHistories
    /\ result = NoResult

\* line 195
ScoreCall ==
    /\ pc = "score_call"
    /\ result' = calculate_score(history)
    /\ pc' = "score_scan"
    /\ UNCHANGED <<tick, now, r, trump_price, last_known_price, watchlist,
                   positions, i, disk, write_failed, changed, snapshot, bet,
                   logs, logged, api, history>>

\* lines 196-199 and 203 on the result of line 195
ScoreScan ==
    /\ pc = "score_scan"
    /\ \E candidate \in Addresses : Verdict(candidate, result)
    /\ changed' = (changed \/ watchlist' # watchlist)
    /\ UNCHANGED <<tick, now, r, trump_price, last_known_price, positions,
                   i, disk, write_failed, snapshot, bet, logs, logged, api,
                   history, result>>

NextScore ==
    \/ ScoreCall
    \/ ScoreScan
    \/ ScanPop
    \/ ScanSave

SpecScore == ScoreInit /\ [][NextScore]_vars

---------------------------------------------------------------------------
(* BotState.add_log on its own: the calls of the main thread, one after    *)
(* the other, and the call of the thread of the API server, each call a    *)
(* step for the append, a step for the test and a step for the pop.        *)

\* the state after lines 60 and 115: BotState() has logged, the thread of
\* the API server is started
LogInit ==
    /\ pc = "add_log"
    /\ tick = 0
    /\ now = StartTime
    /\ r = NoResponse
    /\ trump_price = InitialPrice
    /\ last_known_price = InitialPrice
    /\ disk \in Loaded
    /\ watchlist = disk.watchlist
    /\ positions = disk.positions
    /\ i = 1
    /\ write_failed = FALSE
    /\ changed = FALSE
    /\ snapshot = NoBody
    /\ bet = NoBet
    /\ logs = <<BootEntry(disk)>>
    /\ logged = 0
    /\ api = "api_append"
    /\ history = <<>>
    /\ result = NoResult

\* line 57 in a call of the main thread
MainAppend ==
    /\ pc = "add_log"
    /\ logged < MaxLogs
    /\ logged' = logged + 1
    /\ logs' = Append(logs, MainEntry(logged + 1))
    /\ pc' = "log_check"
    /\ UNCHANGED <<tick, now, r, trump_price, last_known_price, watchlist,
                   positions, i, disk, write_failed, changed, snapshot, bet,
                   api, history, result>>

\* line 58, the test, in a call of the main thread
MainCheck ==
    /\ pc = "log_check"
    /\ pc' = IF LogFull(logs) THEN "log_pop" ELSE "add_log"
    /\ UNCHANGED <<tick, now, r, trump_price, last_known_price, watchlist,
                   positions, i, disk, write_failed, changed, snapshot, bet,
                   logs, logged, api, history, result>>

\* line 58, the pop, in a call of the main thread
MainPop ==
    /\ pc = "log_pop"
    /\ logs' = LogPop(logs)
    /\ pc' = "add_log"
    /\ UNCHANGED <<tick, now, r, trump_price, last_known_price, watchlist,
                   positions, i, disk, write_failed, changed, snapshot, bet,
                   logged, api, history, result>>

\* line 57 in the call of line 112
ApiAppend ==
    /\ api = "api_append"
    /\ logs' = Append(logs, ApiEntry)
    /\ api' = "api_check"
    /\ UNCHANGED <<pc, tick, now, r, trump_price, last_known_price,
                   watchlist, positions, i, disk, write_failed, changed,
                   snapshot, bet, logged, history, result>>

\* line 58, the test, in the call of line 112
ApiCheck ==
    /\ api = "api_check"
    /\ api' = IF LogFull(logs) THEN "api_pop" ELSE "serving"
    /\ UNCHANGED <<pc, tick, now, r, trump_price, last_known_price,
                   watchlist, positions, i, disk, write_failed, changed,
                   snapshot, bet, logs, logged, history, result>>

\* line 58, the pop, in the call of line 112; line 113 follows
ApiPop ==
    /\ api = "api_pop"
    /\ logs' = LogPop(logs)
    /\ api' = "serving"
    /\ UNCHANGED <<pc, tick, now, r, trump_price, last_known_price,
                   watchlist, positions, i, disk, write_failed, changed,
                   snapshot, bet, logged, history, result>>

NextLog ==
    \/ MainAppend
    \/ MainCheck
    \/ MainPop
    \/ ApiAppend
    \/ ApiCheck
    \/ ApiPop

SpecLog == LogInit /\ [][NextLog]_vars

---------------------------------------------------------------------------
(* The claims *)

\* C1: at the end of every iteration of the loop the watchlist holds at
\* most CAP (8) entries, whatever the scans of the iterations did.
C1_WatchlistBounded == pc = "sleep" => Len(watchlist) <= CAP

\* an iteration has ended with a full watchlist after an eviction
C1_Witness ==
    /\ pc = "sleep"
    /\ Len(watchlist) = CAP
    /\ watchlist # SavedWatchlist

\* C2: the watchlist changes only by an append at its end or by the
\* removal of its first (earliest inserted) entry, the removal only when
\* the watchlist holds more than CAP entries; the entries that stay keep
\* their order.
C2_FifoEviction ==
    [][watchlist' # watchlist =>
         \/ /\ Len(watchlist') = Len(watchlist) + 1
            /\ SubSeq(watchlist', 1, Len(watchlist)) = watchlist
         \/ /\ Len(watchlist) > CAP
            /\ watchlist' = Tail(watchlist)]_vars

\* the oldest entry of the recovered watchlist has just been evicted
C2_Witness ==
    /\ pc = "scan_save"
    /\ tick = 0
    /\ Len(watchlist) = CAP
    /\ watchlist[1] = SavedWatchlist[2]
    /\ SubSeq(watchlist, 1, CAP - 1) = Tail(SavedWatchlist)

\* C3: no failure inside an iteration ends the loop.
C3_LoopSurvives == pc # "crashed"

\* C4, the fetches that fail: the request raised, a status other than
\* 200, a body that is not JSON or is empty, no market of Donald Trump, or
\* a market of his that carries no price (no outcomePrices, outcomePrices
\* that is not JSON, an empty list, a first entry that is no number)
C4_Failed(resp) ==
    \/ resp.raised
    \/ resp.status_code # 200
    \/ ~resp.body.json
    \/ resp.body.data = <<>>
    \/ LET markets == resp.body.data[1].markets
           k == FirstTrump(markets, 1)
       IN  \/ k = 0
           \/ ~markets[k].outcomePrices.given
           \/ ~markets[k].outcomePrices.json
           \/ markets[k].outcomePrices.list = <<>>
           \/ float(markets[k].outcomePrices.list[1]).raised

\* the price a fetch that has not failed brings
C4_Price(resp) ==
    LET markets == resp.body.data[1].markets
    IN  float(markets[FirstTrump(markets, 1)].outcomePrices.list[1]).value

\* C4: the last known price is 0.50 at first; a fetch that fails returns
\* the last known price and leaves it as it is, a fetch that succeeds
\* returns the fetched price and records it as the last known price.
C4_QuoteFallback ==
    /\ last_known_price = 5000
    /\ [][pc = "parse" =>
            IF C4_Failed(r)
            THEN /\ trump_price' = last_known_price
                 /\ last_known_price' = last_known_price
            ELSE /\ trump_price' = C4_Price(r)
                 /\ last_known_price' = C4_Price(r)]_vars

C6_SizeMonotone ==
    pc = "size_done" =>
      LET b == bet[1]
      IN  RLess(RInt(1), b.odds) =>
            \A p1 \in SizingProbs :
              RLeq(p1, b.win_prob) =>
                RLeq(calculate_bet_size(RInt(b.bankroll), p1, b.odds), b.size)

\* a call has returned more than the call with a smaller win probability
C6_Witness ==
    /\ pc = "size_done"
    /\ RLess(RInt(1), bet[1].odds)
    /\ \E p1 \in SizingProbs :
         /\ RLess(p1, bet[1].win_prob)
         /\ RLess(calculate_bet_size(RInt(bet[1].bankroll), p1, bet[1].odds),
                  bet[1].size)

\* C7: where the loop is about to mark the positions, marking a position
\* twice with the same quote gives what marking it once gives, and marking
\* changes none of id, market, whale, side, entryPrice, size and timestamp.
C7_MarkIdempotent ==
    (pc = "mark" /\ i = 1) =>
    \A j \in 1..Len(positions), q \in Quotes :
      LET pos   == positions[j]
          once  == MarkPosition(pos, q)
          twice == MarkPosition(once, q)
      IN  /\ twice = once
          /\ once = [pos EXCEPT !.currentPrice = once.currentPrice,
                                !.pnl = once.pnl, !.roi = once.roi]

\* a position marked to a quote, with a pnl, is about to be marked to the
\* same quote again
C7_Witness ==
    /\ pc = "mark"
    /\ tick > 0
    /\ i <= Len(positions)
    /\ positions[i].currentPrice = trump_price
    /\ positions[i].pnl # 0
    /\ positions[i].roi # 0

\* C8 as stated: at the end of every iteration every position is at the
\* quote of the iteration, with pnl = size / entryPrice * quote - size and
\* roi = (quote - entryPrice) / entryPrice exactly.
C8_MarkedExactly ==
    pc = "sleep" =>
      \A j \in 1..Len(positions) :
        LET pos == positions[j]
        IN  pos.market = TrumpMarket =>
              /\ pos.currentPrice = trump_price
              /\ pos.pnl * pos.entryPrice
                   = pos.size * (trump_price - pos.entryPrice)
              /\ pos.roi * pos.entryPrice
                   = 10000 * (trump_price - pos.entryPrice)

\* C8: at the end of every iteration every position is at the quote of the
\* iteration, its pnl is size / entryPrice * quote - size rounded to the
\* cent and its roi is (quote - entryPrice) / entryPrice rounded to four
\* decimals.
C8_MarkedRounded ==
    pc = "sleep" =>
      \A j \in 1..Len(positions) :
        LET pos == positions[j]
        IN  pos.market = TrumpMarket =>
              /\ pos.currentPrice = trump_price
              /\ 2 * Abs(pos.pnl * pos.entryPrice
                           - pos.size * (trump_price - pos.entryPrice))
                   <= Abs(pos.entryPrice)
              /\ 2 * Abs(pos.roi * pos.entryPrice
                           - 10000 * (trump_price - pos.entryPrice))
                   <= Abs(pos.entryPrice)

\* an iteration has ended with a position marked to a pnl that had to be
\* rounded and a position opened in the iteration
C8_Witness ==
    /\ pc = "sleep"
    /\ Len(positions) > 1
    /\ positions[1].pnl * positions[1].entryPrice
         # positions[1].size * (trump_price - positions[1].entryPrice)
    /\ positions[Len(positions)].id = now

\* C9: at the end of an iteration that has changed the watchlist or the
\* positions and in which no write has failed, the file holds the
\* watchlist and the positions as they are in memory.
C9_SavedAfterChange ==
    (pc = "sleep" /\ changed /\ ~write_failed) =>
      /\ disk.file = "written"
      /\ disk.watchlist = watchlist
      /\ disk.positions = positions

\* a position whose pnl and roi are those of its currentPrice
C10_Settled(pos) ==
    /\ 2 * Abs(pos.pnl * pos.entryPrice
                 - pos.size * (pos.currentPrice - pos.entryPrice))
         <= Abs(pos.entryPrice)
    /\ 2 * Abs(pos.roi * pos.entryPrice
                 - 10000 * (pos.currentPrice - pos.entryPrice))
         <= Abs(pos.entryPrice)

\* C10: a body served by GET /status never holds a watchlist of more than
\* CAP entries nor a position whose currentPrice is marked while its pnl
\* and roi are not.
C10_SnapshotConsistent ==
    snapshot # NoBody =>
      /\ Len(snapshot[1].watchlist) <= CAP
      /\ \A j \in 1..Len(snapshot[1].positions) :
           C10_Settled(snapshot[1].positions[j])

\* C11, the moments at which every call of add_log has returned
C11_Quiet == pc = "add_log" /\ api \in {"api_append", "serving"}

\* C11: whenever every call of add_log has returned the buffer holds at
\* most LOG_CAP (100) entries, and the buffer changes only by an append at
\* its end or by the removal of its first (oldest) entry, so that the
\* entries kept are the most recent ones in the order of their appends.
C11_LogRing ==
    /\ [](C11_Quiet => Len(logs) <= LOG_CAP)
    /\ [][logs' # logs =>
            \/ /\ Len(logs') = Len(logs) + 1
               /\ SubSeq(logs', 1, Len(logs)) = logs
            \/ logs' = Tail(logs)]_vars

\* every call has returned, both threads have dropped an oldest entry and
\* the entry of the API server is among the LOG_CAP kept
C11_Witness ==
    /\ C11_Quiet
    /\ api = "serving"
    /\ logged > LOG_CAP
    /\ Len(logs) = LOG_CAP
    /\ logs[1] = MainEntry(logged - LOG_CAP + 2)
    /\ \E k \in 1..Len(logs) : logs[k] = ApiEntry

\* C12 as stated: every position the execute phase appends has a recorded
\* size strictly above MIN_BET (10), and the phase appends nothing when the
\* size computed for the whale it chose is at most 10.
C12_RecordedAboveMin ==
    [][pc = "exec" /\ positions' # positions =>
         /\ Len(positions') = Len(positions) + 1
         /\ positions'[Len(positions')].size > 100 * MIN_BET
         /\ \E w \in 1..Len(watchlist) :
              /\ watchlist[w].address = positions'[Len(positions')].whale
              /\ RLess(RInt(MIN_BET), BetSize(watchlist[w], trump_price))]_vars

\* C12: every position the execute phase appends has a recorded size, the
\* computed size rounded to the cent, of at least MIN_BET (10), the
\* computed size being strictly above 10; the phase appends nothing when
\* the size computed for the whale it chose is at most 10.
C12_RecordedAtLeastMin ==
    [][pc = "exec" /\ positions' # positions =>
         /\ Len(positions') = Len(positions) + 1
         /\ positions'[Len(positions')].size >= 100 * MIN_BET
         /\ \E w \in 1..Len(watchlist) :
              /\ watchlist[w].address = positions'[Len(positions')].whale
              /\ RLess(RInt(MIN_BET), BetSize(watchlist[w], trump_price))]_vars

\* a position has been opened for a computed size between 10 and 10.005:
\* its recorded size is 10.00
C12_Witness ==
    /\ pc = "exec_save"
    /\ Len(positions) = 1
    /\ positions[1].size = 100 * MIN_BET
    /\ RLess(RInt(MIN_BET), BetSize(watchlist[1], trump_price))

\* C13, the fields of a position that its opening fixes
C13_Fixed(pos) ==
    <<pos.id, pos.market, pos.whale, pos.side, pos.entryPrice, pos.size,
      pos.timestamp>>

\* C13: in every step the ledger keeps its positions in their places, with
\* id, market, whale, side, entryPrice, size and timestamp as they were,
\* and grows by at most one position, appended at its end.
C13_LedgerGrowsOnly ==
    [][/\ Len(positions') \in {Len(positions), Len(positions) + 1}
       /\ \A j \in 1..Len(positions) :
            C13_Fixed(positions'[j]) = C13_Fixed(positions[j])]_vars

\* the recovered position has been marked in two iterations while a
\* position was appended behind it in each
C13_Witness ==
    /\ pc = "sleep"
    /\ tick > 0
    /\ Len(positions) = Len(SavedPositions) + 2
    /\ C13_Fixed(positions[1]) = C13_Fixed(SavedPositions[1])
    /\ positions[1].currentPrice # SavedPositions[1].currentPrice

\* C14: the tribunal gives an empty history the score 0 and the status
\* INSUFFICIENT_DATA, and the scan phase then leaves the watchlist as it
\* was.
C14_EmptyHistory ==
    (pc = "exec" /\ history = <<>> /\ result # NoResult) =>
      /\ result = [score |-> 0, status |-> "INSUFFICIENT_DATA"]
      /\ watchlist = disk.watchlist

\* C15, wash_ratio > 500 for the history h: total_volume over
\* |total_pnl| + 1, the pnl being in ten-thousandths and both sides of the
\* comparison divided by 500
C15_Wash(h) ==
    LET vol == ISum([j \in 1..Len(h) |-> h[j].size])
        pnl == ISum([j \in 1..Len(h) |->
                       (h[j].exit_price - 100 * h[j].entry_price) * h[j].size])
    IN  (10000 \div WASH_LIMIT) * vol > Abs(pnl) + 10000

\* C15: for a history that is not empty and has a wash ratio above 500
\* the tribunal returns the score 0 and the status REJECTED_WASH_TRADING,
\* whatever the returns of its trades, and the scan phase leaves the
\* watchlist as it was.
C15_WashRejected ==
    (pc \in {"score_scan", "scan_pop", "scan_save", "exec"}
       /\ history # <<>> /\ C15_Wash(history)) =>
      /\ result = [score |-> 0, status |-> "REJECTED_WASH_TRADING"]
      /\ pc \in {"score_scan", "exec"}
      /\ watchlist = disk.watchlist

\* the scan phase has ended for the ten flat trades, which the tribunal
\* has rejected as wash trading, with a full watchlist left as it was
C15_Witness ==
    /\ pc = "exec"
    /\ history = FlatHistory
    /\ result.status = "REJECTED_WASH_TRADING"
    /\ Len(watchlist) = CAP

\* C16: every score the tribunal returns is at least 0 and at most 100.
C16_ScoreInRange == result.score >= 0 /\ result.score <= 100 * 100

\* C17, the sizes, in cents, of the positions of the ledger attributed to
\* the address a, summed
C17_Exposure(a) ==
    LET mine == SelectSeq(positions, LAMBDA pos : pos.whale = a)
    IN  ISum([j \in 1..Len(mine) |-> mine[j].size])

\* C17: for every address, the sizes of the positions attributed to it sum
\* to at most a fifth of the bankroll (2000).
C17_ExposureCapped ==
    \A j \in 1..Len(positions) :
      C17_Exposure(positions[j].whale) * MAX_PCT_DEN
        <= 100 * Bankroll * MAX_PCT_NUM

\* C18: every iteration that starts runs its phases to the sleep at its
\* end, and every iteration that ends, short of the last one explored, is
\* followed by another.
C18_TicksFollow ==
    /\ (pc = "fetch") ~> (pc = "sleep")
    /\ (pc = "sleep" /\ tick + 1 < MaxTicks) ~> (pc = "fetch")

\* C19: no two positions of the ledger have the same id.
C19_IdsUnique ==
    \A j, k \in 1..Len(positions) :
      j # k => positions[j].id # positions[k].id

\* the ledger holds the recovered position and a position opened in each
\* of two iterations
C19_Witness ==
    /\ pc = "exec_save"
    /\ tick > 0
    /\ Len(positions) = Len(SavedPositions) + 2
    /\ positions[Len(positions)].id = now
    /\ positions[Len(positions) - 1].id = now - SleepSeconds

\* C20: a position is appended only for an entry of a watchlist that is
\* not empty, with an entryPrice strictly below the win probability
\* scoreA / 100 of that entry; the mark and execute phases leave the
\* watchlist as it is and the scan phase leaves the ledger as it is.
C20_OpenedOnEdge ==
    [][/\ Len(positions') > Len(positions) =>
            /\ Len(watchlist) > 0
            /\ \E w \in 1..Len(watchlist) :
                 /\ watchlist[w].address = positions'[Len(positions')].whale
                 /\ positions'[Len(positions')].entryPrice
                      < watchlist[w].scoreA
       /\ pc \in {"mark", "mark_pnl", "mark_roi", "exec", "exec_save"} =>
            watchlist' = watchlist
       /\ pc \in {"scan", "scan_pop", "scan_save"} =>
            positions' = positions]_vars

\* a position has been opened at a quote of 0.80 for a whale of score 100,
\* with whales of score 80 on the watchlist
C20_Witness ==
    /\ pc = "exec_save"
    /\ positions[Len(positions)].id = now
    /\ positions[Len(positions)].entryPrice = 8000
    /\ \E w \in 1..Len(watchlist) : watchlist[w].scoreA = 8000

=============================================================================
